---- MODULE Spec2Model ----
(***************************************************************************)
(* Model of src/index.js: the /upload handler of the CSV ingestion server  *)
(* (line loop, batching, insertDataBatch, the response and the report),    *)
(* the two helpers setNestedProperty and transformForDb, the query of the  *)
(* age-distribution report over the table public.users, and two            *)
(* invocations of the handler that overlap.                                *)
(*                                                                         *)
(* A JavaScript string is a sequence of one-character strings, so that     *)
(* split, trim and parseInt work on characters as the code's do.           *)
(* A JavaScript value is a record [t, s, n, m]: t is the type tag, s the   *)
(* characters of a string, n the value of a number, m the own properties   *)
(* of an object (a function from property names to values).  Property      *)
(* order is not modelled.  Property names are assumed not to be names that *)
(* strings, numbers or Object.prototype define (length, 0, __proto__, ...).*)
(***************************************************************************)
EXTENDS Integers, Sequences, FiniteSets, TLC

\* ---------------------------------------------------------------------------
\* JavaScript values
\* ---------------------------------------------------------------------------
Undef == [t |-> "undef", s |-> <<>>, n |-> 0, m |-> <<>>]

Null == [t |-> "null", s |-> <<>>, n |-> 0, m |-> <<>>]

NaN == [t |-> "nan", s |-> <<>>, n |-> 0, m |-> <<>>]

\* the TypeError raised by a property access on undefined
TypeError == [t |-> "throw", s |-> <<>>, n |-> 0, m |-> <<>>]

Str(s) == [t |-> "str", s |-> s, n |-> 0, m |-> <<>>]

Num(n) == [t |-> "num", s |-> <<>>, n |-> n, m |-> <<>>]

Obj(m) == [t |-> "obj", s |-> <<>>, n |-> 0, m |-> m]

EmptyObj == Obj(<<>>)

\* ToBoolean: what `!v`, `v || d` and `a && v` test
Truthy(v) ==
  CASE v.t = "str" -> v.s # <<>>
    [] v.t = "num" -> v.n # 0
    [] v.t = "obj" -> TRUE
    [] OTHER -> FALSE

\* v[key] for a value that is not undefined or null
Get(v, key) ==
  IF v.t = "obj" /\ key \in DOMAIN v.m THEN v.m[key] ELSE Undef

\* v[key] = x in sloppy mode: on a string or a number it does nothing
Set(v, key, x) ==
  IF v.t = "obj"
    THEN Obj([k \in (DOMAIN v.m) \cup {key} |-> IF k = key THEN x ELSE v.m[k]])
    ELSE v

\* ---------------------------------------------------------------------------
\* String functions of the language that the code calls
\* ---------------------------------------------------------------------------
Digits == <<"0", "1", "2", "3", "4", "5", "6", "7", "8", "9">>

IsDigit(c) == \E d \in 1..10 : Digits[d] = c

DigitVal(c) == (CHOOSE d \in 1..10 : Digits[d] = c) - 1

IsSpace(c) == c = " "

RECURSIVE SplitFrom(_, _, _, _)
SplitFrom(s, sep, i, piece) ==
  IF i > Len(s) THEN <<piece>>
  ELSE IF s[i] = sep THEN <<piece>> \o SplitFrom(s, sep, i + 1, <<>>)
  ELSE SplitFrom(s, sep, i + 1, Append(piece, s[i]))

\* String.prototype.split(sep) with a one-character separator
split(s, sep) == SplitFrom(s, sep, 1, <<>>)

RECURSIVE trimStart(_)
trimStart(s) ==
  IF s # <<>> /\ IsSpace(s[1]) THEN trimStart(Tail(s)) ELSE s

RECURSIVE trimEnd(_)
trimEnd(s) ==
  IF s # <<>> /\ IsSpace(s[Len(s)]) THEN trimEnd(SubSeq(s, 1, Len(s) - 1)) ELSE s

\* String.prototype.trim()
trim(s) == trimEnd(trimStart(s))

RECURSIVE DigitsValue(_, _, _)
\* value of the run of digits of s that starts at i, acc the value so far
DigitsValue(s, i, acc) ==
  IF i > Len(s) \/ ~IsDigit(s[i]) THEN acc
  ELSE DigitsValue(s, i + 1, 10 * acc + DigitVal(s[i]))

\* parseInt(s, 10): leading white space, an optional sign, then digits up to
\* the first other character; NaN when there is no digit
parseInt(s) ==
  LET t == trimStart(s)
      signed == t # <<>> /\ t[1] \in {"-", "+"}
      d == IF signed THEN Tail(t) ELSE t
  IN  IF d = <<>> \/ ~IsDigit(d[1]) THEN NaN
      ELSE IF t[1] = "-" THEN Num(0 - DigitsValue(d, 1, 0))
      ELSE Num(DigitsValue(d, 1, 0))

RECURSIVE NatToString(_)
NatToString(n) ==
  IF n < 10 THEN <<Digits[n + 1]>>
  ELSE Append(NatToString(n \div 10), Digits[(n % 10) + 1])

ObjectObject ==
  <<"[", "o", "b", "j", "e", "c", "t", " ", "O", "b", "j", "e", "c", "t", "]">>

\* ToStringJS of a value placed in a template literal
ToStringJS(v) ==
  CASE v.t = "str" -> v.s
    [] v.t = "num" -> IF v.n < 0 THEN <<"-">> \o NatToString(0 - v.n)
                      ELSE NatToString(v.n)
    [] v.t = "nan" -> <<"N", "a", "N">>
    [] v.t = "null" -> <<"n", "u", "l", "l">>
    [] v.t = "undef" -> <<"u", "n", "d", "e", "f", "i", "n", "e", "d">>
    [] OTHER -> ObjectObject

\* ---------------------------------------------------------------------------
\* Property names and characters used by the code and by the inputs
\* ---------------------------------------------------------------------------
Comma == ","

Dot == "."

K_name == <<"n", "a", "m", "e">>

K_age == <<"a", "g", "e">>

K_address == <<"a", "d", "d", "r", "e", "s", "s">>

K_firstName == <<"f", "i", "r", "s", "t", "N", "a", "m", "e">>

K_lastName == <<"l", "a", "s", "t", "N", "a", "m", "e">>

\* ---------------------------------------------------------------------------
\* setNestedProperty (src/index.js 22-41)
\* ---------------------------------------------------------------------------
RECURSIVE walk(_, _, _)
\* the loop over keys and the final assignment, on the value `current` refers
\* to; the result is that value after the call, or TypeError
walk(current, keys, leaf) ==
  IF current.t = "undef" THEN TypeError
  ELSE IF Len(keys) = 1 THEN Set(current, keys[1], leaf)
  ELSE LET key == keys[1]
           made == IF ~Truthy(Get(current, key))
                     THEN Set(current, key, EmptyObj) ELSE current
           below == walk(Get(made, key), Tail(keys), leaf)
       IN  IF below = TypeError THEN TypeError ELSE Set(made, key, below)

\* mutant of setNestedProperty: the value is stored under the whole path as
\* one property name (obj[path] = value)
setNestedProperty_flat(obj, path, value) ==
  IF value = Str(<<>>) THEN obj
  ELSE Set(obj, path,
           IF path = K_age /\ Truthy(value) THEN parseInt(value.s) ELSE value)

\* mutant of setNestedProperty: the test of lines 23-25 is missing
setNestedProperty_noSkip(obj, path, value) ==
  walk(obj, split(path, Dot),
       IF path = K_age /\ Truthy(value) THEN parseInt(value.s) ELSE value)

\* obj after setNestedProperty(obj, path, value), or TypeError if it throws;
\* value is a string or undefined
setNestedProperty(obj, path, value) ==
  IF value = Str(<<>>) THEN obj
  ELSE walk(obj, split(path, Dot),
            IF path = K_age /\ Truthy(value) THEN parseInt(value.s) ELSE value)

\* ---------------------------------------------------------------------------
\* transformForDb (src/index.js 44-53)
\* ---------------------------------------------------------------------------
\* name?.prop || ''   as it appears inside the template literal
NamePart(name, prop) ==
  LET v == IF name.t \in {"undef", "null"} THEN Undef ELSE Get(name, prop)
  IN  IF Truthy(v) THEN ToStringJS(v) ELSE <<>>

\* the rest properties of the destructuring: every own key but the three
RestOf(obj) ==
  Obj([k \in (DOMAIN obj.m) \ {K_name, K_age, K_address} |-> obj.m[k]])

\* the record transformForDb returns
transformForDb(obj) ==
  LET name == Get(obj, K_name)
      age == Get(obj, K_age)
      address == Get(obj, K_address)
      additional_info == RestOf(obj)
  IN  [name |-> Str(trim(NamePart(name, K_firstName) \o <<" ">>
                         \o NamePart(name, K_lastName))),
       age |-> IF Truthy(age) THEN age ELSE Num(0),
       address |-> IF Truthy(address) THEN address ELSE Null,
       additional_info |-> IF Truthy(additional_info) THEN additional_info
                           ELSE Null]

\* ---------------------------------------------------------------------------
\* Input files
\* ---------------------------------------------------------------------------
\* Array.prototype.join(sep); used only to write the input lines below
RECURSIVE Join(_, _)
Join(parts, sep) ==
  IF Len(parts) = 0 THEN <<>>
  ELSE IF Len(parts) = 1 THEN parts[1]
  ELSE parts[1] \o <<sep>> \o Join(Tail(parts), sep)

P_first == K_name \o <<Dot>> \o K_firstName

P_last == K_name \o <<Dot>> \o K_lastName

P_city == K_address \o <<Dot, "c", "i", "t", "y">>

P_zip == K_address \o <<Dot, "z", "i", "p">>

P_hobby == <<"h", "o", "b", "b", "y">>

P_a == <<"a">>

P_ab == <<"a", Dot, "b">>

P_abc == <<"a", Dot, "b", Dot, "c">>

S_Ann == <<"A", "n", "n">>

S_Lee == <<"L", "e", "e">>

S_34 == <<"3", "4">>

S_Paris == <<"P", "a", "r", "i", "s">>

S_chess == <<"c", "h", "e", "s", "s">>

\* the header of the specification's examples
ExampleHeader == Join(<<P_first, P_last, K_age, P_city, P_hobby>>, Comma)

ExampleRow == Join(<<S_Ann, S_Lee, S_34, S_Paris, S_chess>>, Comma)

\* header lines: the columns of each, joined by commas
HeaderLines ==
  { Join(cols, Comma) : cols \in
      { <<P_first, P_last, K_age, P_city, P_hobby>>,
        <<P_first, K_age>>,
        <<K_age>>,
        <<K_name>>,
        <<K_name, K_age>>,
        <<K_age \o <<Dot, "x">>>>,
        <<K_age, K_age \o <<Dot, "x">>>>,
        <<K_address>>,
        <<P_city, P_zip>>,
        <<P_hobby>>,
        <<P_hobby, P_hobby>>,
        <<P_hobby \o <<Dot, "k">>, P_hobby>>,
        <<P_first \o <<Dot, "x">>, P_last>>,
        <<P_a, P_ab>>,
        <<P_a, P_abc>>,
        <<K_age, K_age \o <<Dot, "x", Dot, "y">>>>,
        <<P_abc, P_ab \o <<Dot, "d">>>>,
        <<<<>>>> } }

\* the values a generated data line is made of
CellValues == { <<>>, S_Ann, S_34, <<"0">>, <<"a", "b", "c">> }

\* the largest number of values on a generated data line
MaxCells == 3

RECURSIVE CellSeqs(_)
CellSeqs(n) ==
  IF n = 0 THEN {<<>>}
  ELSE LET shorter == CellSeqs(n - 1)
       IN  shorter \cup { Append(c, v) : c \in { d \in shorter : Len(d) = n - 1 },
                                         v \in CellValues }

\* data lines: every line of at most MaxCells values, and a few special ones
DataLines ==
  { Join(cells, Comma) : cells \in CellSeqs(MaxCells) }
  \cup { ExampleRow,
         ExampleRow \o <<Comma, "x">>,
         Join(<<S_Ann, <<>>, <<" ", "7">>>>, Comma),
         Join(<<<<" ", "A">>, <<"B", " ">>, <<"-", "5">>>>, Comma),
         Join(<<<<>>, S_Lee, <<"1", "2", "a">>>>, Comma),
         <<"1", "2", "a", "b">>,
         <<"-", "5">>,
         <<" ", "7">>,
         <<"+", "x">> }

\* The batch size.  The handler's is const BATCH_SIZE = 1000 (src/index.js
\* 155) and enters its behaviour only through the comparison of line 185, so
\* the model runs with a small batch size; it is a bound of the model.
BATCH_SIZE == 3

\* the largest number of data rows of a generated file
MaxRows == 8

\* the numbers of data rows of the generated files
GenRowCounts == 2..MaxRows

GenHeader == Join(<<P_first, K_age>>, Comma)

GenNames == <<S_Ann, S_Lee, <<"B", "o">>>>

\* the i-th data row of a generated file: a first name and the age i
GenRow(i) == Join(<<GenNames[(i % 3) + 1], NatToString(i)>>, Comma)

\* An input file: whether it exists at the configured path, its first lines
\* written out, and the number of generated rows that follow them.
Files ==
  { [exists |-> FALSE, lines |-> <<>>, gen |-> 0],
    [exists |-> TRUE, lines |-> <<>>, gen |-> 0] }
  \cup { [exists |-> TRUE, lines |-> <<h>>, gen |-> 0] : h \in HeaderLines }
  \cup { [exists |-> TRUE, lines |-> <<h, r>>, gen |-> 0] :
           h \in HeaderLines, r \in DataLines }
  \cup { [exists |-> TRUE, lines |-> <<ExampleHeader, ExampleRow, <<>>, r>>,
          gen |-> 0] : r \in { ExampleRow, <<>> } }
  \cup { [exists |-> TRUE, lines |-> <<GenHeader>>, gen |-> n] :
           n \in GenRowCounts }

NumLines(f) == Len(f.lines) + f.gen

\* the i-th line of the file, 1 <= i <= NumLines(f)
LineAt(f, i) ==
  IF i <= Len(f.lines) THEN f.lines[i] ELSE GenRow(i - Len(f.lines))

\* ---------------------------------------------------------------------------
\* The table public.users and the age-distribution query (src/index.js 87-136,
\* 241-247).  A table is the sequence of the ages of its rows; a percentage
\* is a number of hundredths (3333 is 33.33).
\* ---------------------------------------------------------------------------
\* the column age is int4 NOT NULL: the INSERT of rows takes integer ages only
Accepts(rows) == \A j \in 1..Len(rows) : rows[j].age.t = "num"

\* the ages a successful INSERT of rows adds to the table
AgesOf(rows) == [j \in 1..Len(rows) |-> rows[j].age.n]

\* the CASE of lines 93-98: the first branch whose condition holds
AgeGroup(age) ==
  IF age < 20 THEN "< 20"
  ELSE IF age >= 20 /\ age <= 40 THEN "20 to 40"
  ELSE IF age > 40 /\ age <= 60 THEN "40 to 60"
  ELSE IF age > 60 THEN "> 60"
  ELSE "NULL"

\* the ORDER BY of lines 111-117
GroupOrder == <<"< 20", "20 to 40", "40 to 60", "> 60">>

\* COUNT(g."Age-Group") of the group g
GroupCount(t, g) == Cardinality({ i \in 1..Len(t) : AgeGroup(t[i]) = g })

\* ROUND(count::decimal / total::decimal * 100.0, 2), in hundredths: numeric
\* rounding, to the nearest hundredth, a half away from zero
Percent(count, total) == (20000 * count + total) \div (2 * total)

\* mutant of AgeDistribution: the empty groups are reported too
AgeDistribution_allGroups(t) ==
  IF t = <<>> THEN <<>>
  ELSE [k \in 1..4 |-> [group |-> GroupOrder[k],
                        pct |-> Percent(GroupCount(t, GroupOrder[k]), Len(t))]]

\* the rows of the query of lines 90-118 over the table t, in order
AgeDistribution(t) ==
  IF t = <<>> THEN <<>>
  ELSE LET Row(k) == [group |-> GroupOrder[k],
                      pct |-> Percent(GroupCount(t, GroupOrder[k]), Len(t))]
           all == [k \in 1..4 |-> Row(k)]
       IN  SelectSeq(all, LAMBDA r : GroupCount(t, r.group) > 0)

\* ---------------------------------------------------------------------------
\* The /upload handler (src/index.js 147-210)
\* ---------------------------------------------------------------------------
VARIABLES
  file,        \* the input file of the run
  pc,          \* where the handler is suspended: "start", "loop" (awaiting the
               \* next line), "connect", "query" (inside insertDataBatch),
               \* "report" (the report query is in flight), "end"
  headers,     \* let headers
  isFirstLine, \* let isFirstLine
  batch,       \* let batch
  consumed,    \* number of lines the line iterator has yielded
  line,        \* the line yielded last
  rowObject,   \* rowObject of the last data line, after the forEach
  dbRow,       \* dbRow of the last data line
  lineResult,  \* "none", "header", "row" or "throw": what the last line did
  produced,    \* number of records pushed to a batch
  writes,      \* the insertDataBatch calls with a non-empty batch, in order:
               \* [rows, final, outcome], outcome "pending", "ok", "failed"
               \* (the INSERT failed) or "noclient" (pool.connect failed)
  clients,     \* number of pool clients the run holds
  res,         \* the status codes of the responses sent, in order
  fatal,       \* why the run failed: "none", "nofile", "read", "type", "connect"
  reports,     \* number of age-distribution queries issued
  report,      \* the rows console.table printed, <<>> if none was printed
  users,       \* the table public.users: the ages of its rows (shared by
               \* all runs; the other variables above belong to one run)
  other        \* a second run of the handler suspended at an await, if any

vars == <<file, pc, headers, isFirstLine, batch, consumed, line, rowObject,
          dbRow, lineResult, produced, writes, clients, res, fatal, reports,
          report, users, other>>

\* no second run
NoRun == [id |-> 0]

NoRow == [name |-> Null, age |-> Null, address |-> Null, additional_info |-> Null]

Init ==
  /\ file \in Files
  /\ pc = "start"
  /\ headers = <<>>
  /\ isFirstLine = TRUE
  /\ batch = <<>>
  /\ consumed = 0
  /\ line = <<>>
  /\ rowObject = Null
  /\ dbRow = NoRow
  /\ lineResult = "none"
  /\ produced = 0
  /\ writes = <<>>
  /\ clients = 0
  /\ res = <<>>
  /\ fatal = "none"
  /\ reports = 0
  /\ report = <<>>
  /\ users = <<>>
  /\ other = NoRun

\* mutant of Catch: the catch block only logs the error
Catch_logsOnly(why) ==
  /\ res' = res
  /\ fatal' = why
  /\ pc' = "end"

\* the catch block of the handler (204-209): respond 500 unless already sent
Catch(why) ==
  /\ res' = IF res = <<>> THEN <<500>> ELSE res
  /\ fatal' = why
  /\ pc' = "end"

\* lines 196-201: the success response, then the report is started and runs
\* up to its pool.query
RespondAndReport ==
  /\ res' = Append(res, 200)
  /\ reports' = reports + 1
  /\ pc' = "report"

\* mutant of CallInsert: the call is not awaited, the handler goes on
CallInsert_notAwaited(b, isFinal) ==
  /\ writes' = Append(writes, [rows |-> b, final |-> isFinal, outcome |-> "pending"])
  /\ pc' = "loop"

\* a call insertDataBatch(b) up to its first await (56-59).  The batch is not
\* empty (57): a flushed batch has reached the batch size (185) and the final
\* flush is made for a batch that holds a record (192).
CallInsert(b, isFinal) ==
  /\ Len(b) # 0
  /\ writes' = Append(writes, [rows |-> b, final |-> isFinal, outcome |-> "pending"])
  /\ pc' = "connect"

\* mutant of Start: the file check of lines 157-160 is missing
Start_noFileCheck ==
  /\ pc = "start"
  /\ pc' = "loop"
  /\ UNCHANGED <<file, headers, isFirstLine, batch, consumed, line, rowObject,
                 dbRow, lineResult, produced, writes, clients, res, fatal,
                 reports, report, users, other>>

\* lines 148-166: the file check and the creation of the streams
Start ==
  /\ pc = "start"
  /\ IF ~file.exists
       THEN /\ res' = Append(res, 500)
            /\ fatal' = "nofile"
            /\ pc' = "end"
       ELSE /\ pc' = "loop"
            /\ UNCHANGED <<res, fatal>>
  /\ UNCHANGED <<file, headers, isFirstLine, batch, consumed, line, rowObject,
                 dbRow, lineResult, produced, writes, clients, reports, report,
                 users, other>>

\* mutant of BatchFull: the comparison of line 185 written with >
BatchFull_strict(b) == Len(b) > BATCH_SIZE

\* line 185: the batch has reached the batch size
BatchFull(b) == Len(b) >= BATCH_SIZE

RECURSIVE forEachHeader(_, _, _, _)
\* headers.forEach of lines 177-180 from index i on (1-based): rowObject after
\* it, or TypeError if a call throws.  (The object after each call is bound as
\* a value, x, so that it is evaluated once.)
forEachHeader(obj, hdrs, values, i) ==
  IF i > Len(hdrs) \/ obj = TypeError THEN obj
  ELSE CHOOSE r \in
         { forEachHeader(x, hdrs, values, i + 1) :
             x \in { setNestedProperty(obj, hdrs[i],
                       IF i <= Len(values) THEN Str(values[i]) ELSE Undef) } } :
         TRUE

\* rowObject built from a data line (175-180)
RowOf(hdrs, l) ==
  CHOOSE r \in { forEachHeader(EmptyObj, hdrs, values, 1) :
                   values \in {split(l, Comma)} } : TRUE

\* the line the iterator yields next
NextLineOf == LineAt(file, consumed + 1)

\* lines 171-173: the iterator yields the first line
HeaderLine ==
  /\ pc = "loop"
  /\ consumed < NumLines(file)
  /\ isFirstLine
  /\ line' = NextLineOf
  /\ consumed' = consumed + 1
  /\ headers' = split(NextLineOf, Comma)
  /\ isFirstLine' = FALSE
  /\ lineResult' = "header"
  /\ UNCHANGED <<file, pc, batch, rowObject, dbRow, produced, writes, clients,
                 res, fatal, reports, report, users, other>>

\* lines 175-188: the body of the loop for a later line on which no call
\* throws
ProcessLine ==
  \E row \in {RowOf(headers, NextLineOf)} :
  \E pushed \in {Append(batch, transformForDb(row))} :
    /\ row # TypeError
    /\ line' = NextLineOf
    /\ consumed' = consumed + 1
    /\ rowObject' = row
    /\ dbRow' = pushed[Len(pushed)]
    /\ lineResult' = "row"
    /\ produced' = produced + 1
    /\ batch' = pushed
    /\ IF BatchFull(pushed)
         THEN CallInsert(pushed, FALSE)
         ELSE UNCHANGED <<pc, writes>>
    /\ UNCHANGED <<file, headers, isFirstLine, clients, res, fatal, reports,
                   report, users, other>>

\* mutant of DataLine: a blank line is skipped (if (!line) continue)
DataLine_skipsBlank ==
  /\ pc = "loop"
  /\ consumed < NumLines(file)
  /\ ~isFirstLine
  /\ IF NextLineOf = <<>>
       THEN /\ line' = NextLineOf
            /\ consumed' = consumed + 1
            /\ UNCHANGED <<file, pc, headers, isFirstLine, batch, rowObject,
                           dbRow, lineResult, produced, writes, clients, res,
                           fatal, reports, report, users, other>>
       ELSE ProcessLine

\* lines 170 and 174-189: the iterator yields a later line and no call throws
DataLine ==
  /\ pc = "loop"
  /\ consumed < NumLines(file)
  /\ ~isFirstLine
  /\ ProcessLine

\* lines 175-180 and 204-209: setNestedProperty throws on a later line
DataLineThrows ==
  /\ pc = "loop"
  /\ consumed < NumLines(file)
  /\ ~isFirstLine
  /\ RowOf(headers, NextLineOf) = TypeError
  /\ line' = NextLineOf
  /\ consumed' = consumed + 1
  /\ rowObject' = TypeError
  /\ lineResult' = "throw"
  /\ Catch("type")
  /\ UNCHANGED <<file, headers, isFirstLine, batch, dbRow, produced, writes,
                 clients, reports, report, users, other>>

\* mutant of ReadError: the batch being filled is flushed after a read error
ReadError_flushes ==
  /\ pc = "loop"
  /\ res' = IF res = <<>> THEN <<500>> ELSE res
  /\ fatal' = "read"
  /\ IF Len(batch) > 0
       THEN CallInsert(batch, TRUE)
       ELSE pc' = "end" /\ UNCHANGED writes
  /\ UNCHANGED <<file, headers, isFirstLine, batch, consumed, line, rowObject,
                 dbRow, lineResult, produced, clients, reports, report, users,
                 other>>

\* line 170 and 204-209: the line iterator raises a read error
ReadError ==
  /\ pc = "loop"
  /\ Catch("read")
  /\ UNCHANGED <<file, headers, isFirstLine, batch, consumed, line, rowObject,
                 dbRow, lineResult, produced, writes, clients, reports, report,
                 users, other>>

\* mutant of EndOfStream: the report is started before the final flush
EndOfStream_reportsBeforeFlush ==
  /\ pc = "loop"
  /\ consumed = NumLines(file)
  /\ IF Len(batch) > 0
       THEN /\ CallInsert(batch, TRUE)
            /\ reports' = reports + 1
            /\ UNCHANGED res
       ELSE /\ RespondAndReport
            /\ UNCHANGED writes
  /\ UNCHANGED <<file, headers, isFirstLine, batch, consumed, line, rowObject,
                 dbRow, lineResult, produced, clients, fatal, report, users,
                 other>>

\* lines 190-201: the iterator is done; the final flush or the response
EndOfStream ==
  /\ pc = "loop"
  /\ consumed = NumLines(file)
  /\ IF Len(batch) > 0
       THEN /\ CallInsert(batch, TRUE)
            /\ UNCHANGED <<res, reports>>
       ELSE /\ RespondAndReport
            /\ UNCHANGED writes
  /\ UNCHANGED <<file, headers, isFirstLine, batch, consumed, line, rowObject,
                 dbRow, lineResult, produced, clients, fatal, report, users,
                 other>>

\* the insertDataBatch call made last
LastWrite == writes[Len(writes)]

SetOutcome(o) ==
  writes' = [writes EXCEPT ![Len(writes)].outcome = o]

\* line 59: pool.connect() resolves with a client
ConnectOk ==
  /\ pc = "connect"
  /\ clients' = clients + 1
  /\ pc' = "query"
  /\ UNCHANGED <<file, headers, isFirstLine, batch, consumed, line, rowObject,
                 dbRow, lineResult, produced, writes, res, fatal, reports,
                 report, users, other>>

\* line 59 and 204-209: pool.connect() rejects, outside the try of
\* insertDataBatch, so the rejection reaches the catch of the handler
ConnectFail ==
  /\ pc = "connect"
  /\ SetOutcome("noclient")
  /\ Catch("connect")
  /\ UNCHANGED <<file, headers, isFirstLine, batch, consumed, line, rowObject,
                 dbRow, lineResult, produced, clients, reports, report, users,
                 other>>

\* mutant of AfterInsert: the batch is not emptied after a flush
AfterInsert_keepsBatch ==
  IF writes[Len(writes)].final
    THEN /\ RespondAndReport
         /\ UNCHANGED batch
    ELSE /\ batch' = batch
         /\ pc' = "loop"
         /\ UNCHANGED <<res, reports>>

\* lines 186-188 and 192-201: insertDataBatch has returned
AfterInsert ==
  IF writes[Len(writes)].final
    THEN /\ RespondAndReport
         /\ UNCHANGED batch
    ELSE /\ batch' = <<>>
         /\ pc' = "loop"
         /\ UNCHANGED <<res, reports>>

\* mutant of QueryDone: the rejection of the INSERT is not caught (the client
\* is still released) and reaches the catch of the handler
QueryDone_rethrows(ok) ==
  /\ pc = "query"
  /\ ok => Accepts(LastWrite.rows)
  /\ SetOutcome(IF ok THEN "ok" ELSE "failed")
  /\ users' = IF ok THEN users \o AgesOf(LastWrite.rows) ELSE users
  /\ clients' = clients - 1
  /\ IF ok THEN AfterInsert /\ UNCHANGED fatal
           ELSE Catch("insert") /\ UNCHANGED <<batch, reports>>
  /\ UNCHANGED <<file, headers, isFirstLine, consumed, line, rowObject, dbRow,
                 lineResult, produced, report, other>>

\* mutant of QueryDone: the client is released after a successful INSERT only
QueryDone_leaksOnFailure(ok) ==
  /\ pc = "query"
  /\ ok => Accepts(LastWrite.rows)
  /\ SetOutcome(IF ok THEN "ok" ELSE "failed")
  /\ users' = IF ok THEN users \o AgesOf(LastWrite.rows) ELSE users
  /\ clients' = IF ok THEN clients - 1 ELSE clients
  /\ AfterInsert
  /\ UNCHANGED <<file, headers, isFirstLine, consumed, line, rowObject, dbRow,
                 lineResult, produced, fatal, report, other>>

\* lines 74-80: the INSERT resolves (ok) and its rows are in the table, or
\* it rejects and is caught (~ok); the client is released either way and
\* insertDataBatch returns.  The INSERT of a batch with a row the table cannot
\* hold rejects.
QueryDone(ok) ==
  /\ pc = "query"
  /\ ok => Accepts(LastWrite.rows)
  /\ SetOutcome(IF ok THEN "ok" ELSE "failed")
  /\ users' = IF ok THEN users \o AgesOf(LastWrite.rows) ELSE users
  /\ clients' = clients - 1
  /\ AfterInsert
  /\ UNCHANGED <<file, headers, isFirstLine, consumed, line, rowObject, dbRow,
                 lineResult, produced, fatal, report, other>>

QueryOk == QueryDone(TRUE)

QueryFail == QueryDone(FALSE)

\* lines 120-135: the report query resolves (ok) and its rows are printed, or
\* it rejects and the error is logged (~ok); both end the report
ReportDone(ok) ==
  /\ pc = "report"
  /\ pc' = "end"
  /\ report' = IF ok THEN AgeDistribution(users) ELSE report
  /\ UNCHANGED <<file, headers, isFirstLine, batch, consumed, line, rowObject,
                 dbRow, lineResult, produced, writes, clients, res, fatal,
                 reports, users, other>>

ReportOk == ReportDone(TRUE)

ReportFail == ReportDone(FALSE)

Next ==
  \/ Start
  \/ HeaderLine
  \/ DataLine
  \/ DataLineThrows
  \/ ReadError
  \/ EndOfStream
  \/ ConnectOk
  \/ ConnectFail
  \/ QueryOk
  \/ QueryFail
  \/ ReportOk
  \/ ReportFail

Spec == Init /\ [][Next]_vars

\* The runs over the generated files and over the files of the example
\* header and of a header whose rows throw.  The event loop runs a
\* continuation whenever one is ready: the run does not stop while a step of
\* it is possible.
FairFiles ==
  { f \in Files : \/ f.gen > 0
                  \/ /\ Len(f.lines) >= 2
                     /\ f.lines[1] \in {ExampleHeader, Join(<<P_a, P_abc>>, Comma)}
                     /\ f.lines[2] \in {ExampleRow, Join(<<S_Ann, S_34>>, Comma)} }

FairInit == Init /\ file \in FairFiles

FairSpec == FairInit /\ [][Next]_vars /\ WF_vars(Next)

\* ---------------------------------------------------------------------------
\* Two invocations of the handler that overlap.  JavaScript runs one
\* continuation at a time: between two awaits an invocation runs alone, and
\* at an await the event loop may resume the other one.  The variables of the
\* handler are those of the invocation that is running or ran last; the other
\* invocation, suspended, is kept in the variable other.  The table is the
\* only state the two share.
\* ---------------------------------------------------------------------------
\* the invocation that is running, numbered id, as it is suspended
Locals(id) ==
  [id |-> id, file |-> file, pc |-> pc, headers |-> headers,
   isFirstLine |-> isFirstLine, batch |-> batch, consumed |-> consumed,
   line |-> line, rowObject |-> rowObject, dbRow |-> dbRow,
   lineResult |-> lineResult, produced |-> produced, writes |-> writes,
   clients |-> clients, res |-> res, fatal |-> fatal, reports |-> reports,
   report |-> report]

\* mutant of Switch: batch is a variable of the module, one for all invocations
Switch_sharedBatch ==
  /\ other # NoRun
  /\ other' = Locals(3 - other.id)
  /\ file' = other.file
  /\ pc' = other.pc
  /\ headers' = other.headers
  /\ isFirstLine' = other.isFirstLine
  /\ batch' = batch
  /\ consumed' = other.consumed
  /\ line' = other.line
  /\ rowObject' = other.rowObject
  /\ dbRow' = other.dbRow
  /\ lineResult' = other.lineResult
  /\ produced' = other.produced
  /\ writes' = other.writes
  /\ clients' = other.clients
  /\ res' = other.res
  /\ fatal' = other.fatal
  /\ reports' = other.reports
  /\ report' = other.report
  /\ UNCHANGED users

\* the event loop suspends the running invocation at its await and resumes
\* the other one: each invocation has its own headers, isFirstLine, batch
\* (152-154), line iterator (162-166) and response
Switch ==
  /\ other # NoRun
  /\ other' = Locals(3 - other.id)
  /\ file' = other.file
  /\ pc' = other.pc
  /\ headers' = other.headers
  /\ isFirstLine' = other.isFirstLine
  /\ batch' = other.batch
  /\ consumed' = other.consumed
  /\ line' = other.line
  /\ rowObject' = other.rowObject
  /\ dbRow' = other.dbRow
  /\ lineResult' = other.lineResult
  /\ produced' = other.produced
  /\ writes' = other.writes
  /\ clients' = other.clients
  /\ res' = other.res
  /\ fatal' = other.fatal
  /\ reports' = other.reports
  /\ report' = other.report
  /\ UNCHANGED users

\* the files of two overlapping invocations (the file at the configured path
\* may be replaced between two requests): a generated file of one full batch
\* and one more row, a file of four ages, and a file whose row throws
AgesFile ==
  [exists |-> TRUE,
   lines |-> <<K_age, <<"6", "1">>, <<"6", "2">>, <<"6", "3">>, <<"6", "4">>>>,
   gen |-> 0]

TwoRunFiles ==
  { [exists |-> TRUE, lines |-> <<GenHeader>>, gen |-> BATCH_SIZE + 1],
    AgesFile,
    [exists |-> TRUE,
     lines |-> <<Join(<<P_a, P_abc>>, Comma), Join(<<S_Ann, S_34>>, Comma)>>,
     gen |-> 0] }

\* both requests have arrived and neither handler has run yet
TwoRunInit ==
  /\ file \in TwoRunFiles
  /\ pc = "start"
  /\ headers = <<>>
  /\ isFirstLine = TRUE
  /\ batch = <<>>
  /\ consumed = 0
  /\ line = <<>>
  /\ rowObject = Null
  /\ dbRow = NoRow
  /\ lineResult = "none"
  /\ produced = 0
  /\ writes = <<>>
  /\ clients = 0
  /\ res = <<>>
  /\ fatal = "none"
  /\ reports = 0
  /\ report = <<>>
  /\ users = <<>>
  /\ other \in { [id |-> 2, file |-> f, pc |-> "start", headers |-> <<>>,
                   isFirstLine |-> TRUE, batch |-> <<>>, consumed |-> 0,
                   line |-> <<>>, rowObject |-> Null, dbRow |-> NoRow,
                   lineResult |-> "none", produced |-> 0, writes |-> <<>>,
                   clients |-> 0, res |-> <<>>, fatal |-> "none",
                   reports |-> 0, report |-> <<>>] : f \in TwoRunFiles }

TwoRunNext == Next \/ Switch

TwoRunSpec == TwoRunInit /\ [][TwoRunNext]_vars

\* ---------------------------------------------------------------------------
\* The report over a table of any content: the run on an empty file has sent
\* the success response and its report query is in flight, the table holding
\* the rows of earlier runs.
\* ---------------------------------------------------------------------------
\* the ages of the rows of a generated table: the ends of the four ranges,
\* the ages next to them, and the ages of the example
AgeValues == { -5, 0, 15, 19, 20, 25, 40, 41, 60, 61, 65 }

\* the largest number of rows of a generated table
MaxUsers == 3

RECURSIVE AgeSeqs(_)
AgeSeqs(n) ==
  IF n = 0 THEN {<<>>}
  ELSE LET shorter == AgeSeqs(n - 1)
       IN  shorter \cup { Append(t, a) : t \in { u \in shorter : Len(u) = n - 1 },
                                         a \in AgeValues }

\* larger tables, whose percentages are not whole hundredths: one row of age
\* 65, one of age 41 if there are more than six rows, the others of age 15
BigTableSizes == { 6, 7, 32 }

BigTable(n) ==
  [i \in 1..n |-> IF i = 1 THEN 65 ELSE IF i = 7 THEN 41 ELSE 15]

Tables == AgeSeqs(MaxUsers) \cup { BigTable(n) : n \in BigTableSizes }

ReportInit ==
  /\ file = [exists |-> TRUE, lines |-> <<>>, gen |-> 0]
  /\ pc = "report"
  /\ headers = <<>>
  /\ isFirstLine = TRUE
  /\ batch = <<>>
  /\ consumed = 0
  /\ line = <<>>
  /\ rowObject = Null
  /\ dbRow = NoRow
  /\ lineResult = "none"
  /\ produced = 0
  /\ writes = <<>>
  /\ clients = 0
  /\ res = <<200>>
  /\ fatal = "none"
  /\ reports = 1
  /\ report = <<>>
  /\ users \in Tables
  /\ other = NoRun

ReportNext == ReportOk \/ ReportFail

ReportSpec == ReportInit /\ [][ReportNext]_vars

TypeOK ==
  /\ pc \in {"start", "loop", "connect", "query", "report", "end"}
  /\ Len(batch) <= BATCH_SIZE
  /\ clients \in {0, 1}

\* ---------------------------------------------------------------------------
\* Definitions the properties share
\* ---------------------------------------------------------------------------
\* N: the number of lines after the first
DataRows(f) == IF NumLines(f) = 0 THEN 0 ELSE NumLines(f) - 1

\* ceil(n / BATCH_SIZE)
NumBatches(n) == (n + BATCH_SIZE - 1) \div BATCH_SIZE

\* the loop of line 170 has ended because the iterator was done
StreamEnded ==
  /\ consumed = NumLines(file)
  /\ \/ pc = "report"
     \/ pc = "end" /\ fatal = "none"
     \/ pc \in {"connect", "query"} /\ LastWrite.final
     \/ pc = "end" /\ fatal = "connect" /\ LastWrite.final

RECURSIVE WrittenRows(_)
\* the rows of the first k writes, concatenated in issue order
WrittenRows(k) ==
  IF k = 0 THEN <<>> ELSE WrittenRows(k - 1) \o writes[k].rows

\* the data lines of the file, each transformed, in file order
TransformedRows(f) ==
  [i \in 1..DataRows(f) |->
     transformForDb(RowOf(split(LineAt(f, 1), Comma), LineAt(f, i + 1)))]

\* ---------------------------------------------------------------------------
\* C1: a run that reads the stream to its end issues exactly ceil(N/B) batch
\* writes; every write but the last holds B records, the last the remaining
\* N - B*(ceil(N/B)-1); no write of any run holds more than B records (or
\* none); and the written batches, concatenated in issue order, are the
\* transformed data lines in file order.
\* ---------------------------------------------------------------------------
C1_Batching ==
  /\ \A j \in 1..Len(writes) :
       Len(writes[j].rows) >= 1 /\ Len(writes[j].rows) <= BATCH_SIZE
  /\ StreamEnded =>
       LET n == DataRows(file)
           k == NumBatches(n)
       IN  /\ Len(writes) = k
           /\ \A j \in 1..k :
                Len(writes[j].rows) =
                  IF j < k THEN BATCH_SIZE ELSE n - BATCH_SIZE * (k - 1)
           /\ WrittenRows(k) = TransformedRows(file)

\* two full batches and a final partial one, all written, the run over
C1_Witness ==
  /\ pc = "end"
  /\ fatal = "none"
  /\ Len(writes) = 3
  /\ Len(writes[1].rows) = BATCH_SIZE
  /\ Len(writes[2].rows) = BATCH_SIZE
  /\ Len(writes[3].rows) \in 1..(BATCH_SIZE - 1)
  /\ \A j \in 1..3 : writes[j].outcome = "ok"

\* ---------------------------------------------------------------------------
\* C2: a failed INSERT of a batch does not end the run: insertDataBatch
\* returns, the handler is back in its loop with an empty batch and no
\* response sent, and if lines remain the run goes on to call insertDataBatch
\* for the following batch, unless an error of another kind (a read error, a
\* throwing line) ends it first.
\* ---------------------------------------------------------------------------
\* the last insertDataBatch call was not the final flush, and its INSERT failed
FailedMidWrite ==
  /\ writes # <<>>
  /\ LastWrite.outcome = "failed"
  /\ ~LastWrite.final

C3_EveryLaterLineOneRecord ==
  [][(consumed' = consumed + 1 /\ consumed >= 1) => produced' = produced + 1]_vars

\* ---------------------------------------------------------------------------
\* C3 (amended): the number of records produced is the number of lines
\* consumed after the first, the first line producing none and every later
\* line one (a blank line, a line with fewer or more values than headers),
\* except for a line on which setNestedProperty throws: it produces no record
\* and ends the run with the failure response.  The records produced are the
\* records of the batches handed to insertDataBatch and of the batch being
\* filled.
\* ---------------------------------------------------------------------------
C3_RecordsMatchLines ==
  /\ lineResult \in {"none", "header"} => produced = 0 /\ consumed <= 1
  /\ lineResult = "row" => consumed >= 2 /\ produced = consumed - 1
  /\ lineResult = "throw" =>
       /\ consumed >= 2
       /\ produced = consumed - 2
       /\ pc = "end"
       /\ res = <<500>>
  /\ produced = Len(WrittenRows(Len(writes)))
                + (IF writes # <<>> /\ batch = LastWrite.rows THEN 0 ELSE Len(batch))

\* a blank line under a header of several columns has produced the second
\* record of the run
C3_Witness ==
  /\ lineResult = "row"
  /\ line = <<>>
  /\ Len(headers) > 1
  /\ consumed = 3
  /\ produced = 2

\* ---------------------------------------------------------------------------
\* Definitions on the data line processed last
\* ---------------------------------------------------------------------------
\* the values of the line
Values == split(line, Comma)

\* the path segments of column i
Keys(i) == split(headers[i], Dot)

Columns == 1..Len(headers)

\* the line gives column i a non-empty value
Present(i) == i <= Len(Values) /\ Values[i] # <<>>

\* the line gives column i the empty string
Empty(i) == i <= Len(Values) /\ Values[i] = <<>>

IsPrefix(a, b) == Len(a) <= Len(b) /\ SubSeq(b, 1, Len(a)) = a

\* another column names the same location, one above it or one below it
Collides(i) ==
  \E j \in Columns :
    j # i /\ (IsPrefix(Keys(i), Keys(j)) \/ IsPrefix(Keys(j), Keys(i)))

RECURSIVE Lookup(_, _)
\* the value at a path of segments inside v, undefined if there is none
Lookup(v, keys) ==
  IF keys = <<>> THEN v
  ELSE IF v.t = "obj" /\ keys[1] \in DOMAIN v.m
         THEN Lookup(v.m[keys[1]], Tail(keys))
  ELSE Undef

\* the value the line gives the column of path p, the empty string if none
ValueOf(p) ==
  IF \E i \in Columns : headers[i] = p /\ Present(i)
    THEN Values[CHOOSE i \in Columns : headers[i] = p /\ Present(i)]
    ELSE <<>>

\* the columns under name are name.<segment> columns, each named once
NameColumnsPlain ==
  \A i \in Columns :
    Keys(i)[1] = K_name => Len(Keys(i)) = 2 /\ ~Collides(i)

\* the value of column i is at the location of the Target Record its path names
Placed(i) ==
  LET keys == Keys(i)
      v == Values[i]
  IN  CASE headers[i] = K_age ->
             /\ dbRow.age.t = "num"
             /\ dbRow.age = IF Truthy(parseInt(v)) THEN parseInt(v) ELSE Num(0)
        [] headers[i] # K_age /\ keys[1] \in {K_age, K_name} -> TRUE
        [] keys[1] = K_address -> Lookup(dbRow.address, Tail(keys)) = Str(v)
        [] OTHER -> Lookup(dbRow.additional_info, keys) = Str(v)

\* ---------------------------------------------------------------------------
\* C4: after setNestedProperty for every (header, value) pair of a row and
\* transformForDb, every field is at its location of the Target Record: the
\* values of name.firstName and name.lastName in name, joined by one space
\* and trimmed; the value of age in age, as an integer; the value of an
\* address path under address at that path; the value of any other path under
\* additional_info at that path; and additional_info and address hold no top
\* level key that no column names.  A field has a location of its own when no
\* other column names the same path, a prefix of it or an extension of it.
\* ---------------------------------------------------------------------------
C4_FieldsPlaced ==
  lineResult = "row" =>
    /\ \A i \in Columns : (Present(i) /\ ~Collides(i)) => Placed(i)
    /\ NameColumnsPlain =>
         dbRow.name = Str(trim(ValueOf(P_first) \o <<" ">> \o ValueOf(P_last)))
    /\ dbRow.additional_info.t = "obj" =>
         \A k \in DOMAIN dbRow.additional_info.m :
           /\ k \notin {K_name, K_age, K_address}
           /\ \E i \in Columns : Keys(i)[1] = k /\ ~Empty(i)
    /\ dbRow.address.t = "obj" =>
         \A k \in DOMAIN dbRow.address.m :
           \E i \in Columns :
             Len(Keys(i)) >= 2 /\ Keys(i)[1] = K_address /\ Keys(i)[2] = k

\* the example of the specification
C4_Witness ==
  /\ lineResult = "row"
  /\ headers = <<P_first, P_last, K_age, P_city, P_hobby>>
  /\ line = ExampleRow
  /\ dbRow = [name |-> Str(S_Ann \o <<" ">> \o S_Lee),
              age |-> Num(34),
              address |-> Obj(<<"c", "i", "t", "y">> :> Str(S_Paris)),
              additional_info |-> Obj(P_hobby :> Str(S_chess))]

\* ---------------------------------------------------------------------------
\* C5 (as claimed): a raw record with no top-level key other than name, age
\* and address gives a Target Record whose additional_info is null.
\* ---------------------------------------------------------------------------
C5_NullWhenNoOtherKey ==
  (lineResult = "row" /\ DOMAIN RestOf(rowObject).m = {})
    => dbRow.additional_info = Null

\* ---------------------------------------------------------------------------
\* Definitions for C6
\* ---------------------------------------------------------------------------
RECURSIVE NoEmptyLeaf(_)
\* no leaf of v is the empty string
NoEmptyLeaf(v) ==
  /\ v # Str(<<>>)
  /\ v.t = "obj" => \A k \in DOMAIN v.m : NoEmptyLeaf(v.m[k])

RECURSIVE Without(_, _)
\* the sequence of the elements of seq whose index is not in the set drop
Without(seq, drop) ==
  IF seq = <<>> THEN <<>>
  ELSE LET front == Without(SubSeq(seq, 1, Len(seq) - 1), drop)
       IN  IF Len(seq) \in drop THEN front ELSE Append(front, seq[Len(seq)])

\* the columns the line gives the empty string
EmptyColumns == { i \in Columns : Empty(i) }

\* ---------------------------------------------------------------------------
\* C6: setNestedProperty with an empty-string value does nothing: the raw
\* record of a line is the record built from the line with the columns of
\* empty value taken out of the header and of the line, so no leaf is written
\* and no intermediate mapping is created for them; no raw record contains an
\* empty-string leaf; and the header age with an empty value gives age = 0.
\* ---------------------------------------------------------------------------
C6_EmptyValueIsNoOp ==
  lineResult = "row" =>
    /\ NoEmptyLeaf(rowObject)
    /\ rowObject = forEachHeader(EmptyObj, Without(headers, EmptyColumns),
                                 Without(Values, EmptyColumns), 1)
    /\ \A i \in EmptyColumns : setNestedProperty(rowObject, headers[i], Str(<<>>))
                                 = rowObject
    /\ (headers = <<K_age>> /\ Values[1] = <<>>) =>
         (rowObject = EmptyObj /\ dbRow.age = Num(0))

\* the line "," under the header address.city,address.zip: two empty values,
\* and the raw record has no address
C6_Witness ==
  /\ lineResult = "row"
  /\ headers = <<P_city, P_zip>>
  /\ line = <<Comma>>
  /\ rowObject = EmptyObj
  /\ dbRow.address = Null

\* ---------------------------------------------------------------------------
\* C7 (as claimed): every Target Record handed to a batch has a string name
\* and an integer age.
\* ---------------------------------------------------------------------------
C7_NameStringAgeInteger ==
  \A j \in 1..Len(batch) : batch[j].name.t = "str" /\ batch[j].age.t = "num"

\* ---------------------------------------------------------------------------
\* C9: a run sends at most one response, and exactly one once the handler
\* has returned; the response is sent when the handler returns and not
\* before; success is sent only when no fatal error occurred, every line was
\* consumed and every insertDataBatch call, the final one included, was
\* issued and has returned; failure is sent only when a fatal error occurred,
\* and every fatal error is answered by failure.
\* ---------------------------------------------------------------------------
C9_OneResponse ==
  /\ Len(res) <= 1
  /\ pc \in {"report", "end"} <=> Len(res) = 1
  /\ res \in {<<>>, <<200>>, <<500>>}
  /\ res = <<200>> =>
       /\ fatal = "none"
       /\ consumed = NumLines(file)
       /\ produced = DataRows(file)
       /\ Len(writes) = NumBatches(DataRows(file))
       /\ \A j \in 1..Len(writes) : writes[j].outcome \in {"ok", "failed"}
       /\ clients = 0
  /\ res = <<500>> => fatal # "none" /\ pc = "end"
  /\ fatal # "none" => res = <<500>>

\* success was sent after a failed full batch and a final partial batch
C9_Witness ==
  /\ pc = "end"
  /\ res = <<200>>
  /\ Len(writes) = 2
  /\ writes[1].outcome = "failed"
  /\ writes[2].final
  /\ Len(writes[2].rows) < BATCH_SIZE

\* ---------------------------------------------------------------------------
\* C10: when the input file does not exist, the run answers failure and does
\* nothing else: no line is read, no record produced, no insertDataBatch call
\* made, no client acquired, no report query issued.
\* ---------------------------------------------------------------------------
C10_MissingFileAborts ==
  ~file.exists =>
    /\ pc \in {"start", "end"}
    /\ pc = "end" => res = <<500>> /\ fatal = "nofile"
    /\ consumed = 0
    /\ isFirstLine
    /\ produced = 0
    /\ batch = <<>>
    /\ writes = <<>>
    /\ clients = 0
    /\ reports = 0

\* the run on a missing file has answered failure
C10_Witness ==
  /\ ~file.exists
  /\ pc = "end"
  /\ res = <<500>>
  /\ fatal = "nofile"

\* ---------------------------------------------------------------------------
\* Definitions for the table
\* ---------------------------------------------------------------------------
RECURSIVE StoredAges(_)
\* the ages of the rows of the first k writes whose INSERT succeeded
StoredAges(k) ==
  IF k = 0 THEN <<>>
  ELSE StoredAges(k - 1)
         \o (IF writes[k].outcome = "ok" THEN AgesOf(writes[k].rows) ELSE <<>>)

\* ---------------------------------------------------------------------------
\* C11: a read error raised by the line iterator is fatal.  The step that
\* raises it reads no line, issues no write and leaves the table alone; after
\* it the handler has returned with the failure response and nothing changes
\* any more: no line is processed, no insertDataBatch call is made (none is
\* the final flush: the records of the batch being filled are in no write),
\* the rows of the batches written before are in the table, and no report
\* query is issued.
\* ---------------------------------------------------------------------------
C11_ReadErrorIsFatal ==
  /\ [](fatal = "read" =>
         /\ pc = "end"
         /\ res = <<500>>
         /\ reports = 0
         /\ report = <<>>
         /\ clients = 0
         /\ \A j \in 1..Len(writes) :
              ~writes[j].final /\ writes[j].outcome \in {"ok", "failed"}
         /\ produced = Len(WrittenRows(Len(writes))) + Len(batch)
         /\ users = StoredAges(Len(writes)))
  /\ [][(fatal' = "read" /\ fatal # "read") =>
          (pc = "loop" /\ consumed' = consumed /\ produced' = produced
           /\ writes' = writes /\ users' = users)]_vars
  /\ [][fatal = "read" =>
          (consumed' = consumed /\ produced' = produced /\ writes' = writes
           /\ users' = users /\ res' = res /\ reports' = reports)]_vars

\* the stream failed after a full batch was written and while the second
\* batch was being filled
C11_Witness ==
  /\ fatal = "read"
  /\ Len(writes) = 1
  /\ writes[1].outcome = "ok"
  /\ Len(users) = BATCH_SIZE
  /\ Len(batch) \in 1..(BATCH_SIZE - 1)
  /\ consumed < NumLines(file)

\* ---------------------------------------------------------------------------
\* Definitions for C12
\* ---------------------------------------------------------------------------
Groups == { "< 20", "20 to 40", "40 to 60", "> 60" }

\* the range of ages of a group
InGroup(g, age) ==
  CASE g = "< 20" -> age < 20
    [] g = "20 to 40" -> 20 <= age /\ age <= 40
    [] g = "40 to 60" -> 40 < age /\ age <= 60
    [] g = "> 60" -> age > 60

\* the position of a group in the order of the report
Rank(g) ==
  CASE g = "< 20" -> 1 [] g = "20 to 40" -> 2 [] g = "40 to 60" -> 3
    [] g = "> 60" -> 4

\* the number of rows of the table whose age is in the range of g
InGroupCount(g) == Cardinality({ i \in 1..Len(users) : InGroup(g, users[i]) })

\* p hundredths is count / total * 100 rounded to two decimals: the nearest
\* hundredth, and of two nearest ones the larger
IsRounded(p, count, total) ==
  LET diff == 2 * (p * total - 10000 * count)
  IN  -total < diff /\ diff <= total

\* ---------------------------------------------------------------------------
\* C12: the age of every row of the table is in the range of exactly one of
\* the four groups < 20, 20 to 40 (20 <= age <= 40), 40 to 60 (40 < age <=
\* 60) and > 60; a printed report has one row for each group that has a row
\* of the table and none for the others, in that order of the groups, with
\* count / total * 100 rounded to two decimals; for the ages 15, 25, 65 it is
\* 33.33 for < 20, 20 to 40 and > 60.
\* ---------------------------------------------------------------------------
C12_AgeDistribution ==
  /\ \A i \in 1..Len(users) :
       Cardinality({ g \in Groups : InGroup(g, users[i]) }) = 1
  /\ report # <<>> =>
       /\ \A k \in 1..Len(report) :
            /\ report[k].group \in Groups
            /\ InGroupCount(report[k].group) > 0
            /\ IsRounded(report[k].pct, InGroupCount(report[k].group), Len(users))
       /\ \A g \in Groups :
            InGroupCount(g) > 0 => \E k \in 1..Len(report) : report[k].group = g
       /\ \A k \in 1..(Len(report) - 1) :
            Rank(report[k].group) < Rank(report[k + 1].group)
       /\ users = <<15, 25, 65>> =>
            report = << [group |-> "< 20", pct |-> 3333],
                        [group |-> "20 to 40", pct |-> 3333],
                        [group |-> "> 60", pct |-> 3333] >>

\* the report of the example is printed
C12_Witness ==
  /\ pc = "end"
  /\ users = <<15, 25, 65>>
  /\ Len(report) = 3
  /\ \A k \in 1..3 : report[k].pct = 3333
  /\ \A k \in 1..3 : report[k].group # "40 to 60"

\* a report with percentages rounded up and down is printed
C12_WitnessRounding ==
  /\ pc = "end"
  /\ Len(users) = 32
  /\ report = << [group |-> "< 20", pct |-> 9375],
                 [group |-> "40 to 60", pct |-> 313],
                 [group |-> "> 60", pct |-> 313] >>

\* ---------------------------------------------------------------------------
\* C13 (as claimed): when an insertDataBatch call fails, whether pool.connect
\* or the INSERT rejected, the run does not fail: the handler goes on in its
\* loop or to the success response; and a run fails only on a failure of the
\* input (the file is missing or the stream raises a read error).
\* ---------------------------------------------------------------------------
C13_WriteFailureAbsorbed ==
  /\ [][(/\ pc \in {"connect", "query"}
          /\ writes'[Len(writes)].outcome \in {"failed", "noclient"})
          => (/\ fatal' = "none"
              /\ res' \in {<<>>, <<200>>}
              /\ pc' \in {"loop", "report"})]_vars
  /\ [](fatal \in {"none", "read", "nofile"})

\* ---------------------------------------------------------------------------
\* Definitions for C14
\* ---------------------------------------------------------------------------
\* the insertDataBatch calls that have not returned
InFlight == { j \in 1..Len(writes) : writes[j].outcome = "pending" }

\* the record of the n-th data line of the file
RecordOfLine(n) ==
  transformForDb(RowOf(split(LineAt(file, 1), Comma), LineAt(file, n + 1)))

\* ---------------------------------------------------------------------------
\* C14: the batch writes of a run do not overlap and are in file order.  At
\* most one insertDataBatch call is in flight, the one made last, and the
\* handler is inside it; while it is in flight no line is read and no other
\* call is made; and the k-th call holds the records of the data lines
\* (k-1)*B+1, (k-1)*B+2, ... in that order, so every call holds an earlier
\* contiguous slice of the file than the next.
\* ---------------------------------------------------------------------------
C14_WritesInOrder ==
  /\ [](
       /\ Cardinality(InFlight) <= 1
       /\ (InFlight # {}) <=> (pc \in {"connect", "query"})
       /\ InFlight \subseteq {Len(writes)}
       /\ \A k \in 1..Len(writes) : \A i \in 1..Len(writes[k].rows) :
            writes[k].rows[i] = RecordOfLine((k - 1) * BATCH_SIZE + i)
     )
  /\ [][InFlight # {} =>
          (consumed' = consumed /\ produced' = produced
           /\ Len(writes') = Len(writes))]_vars
  /\ [][Len(writes') # Len(writes) =>
          (/\ Len(writes') = Len(writes) + 1
           /\ SubSeq(writes', 1, Len(writes)) = writes
           /\ InFlight = {})]_vars

\* the third write is in flight after the first failed and the second
\* succeeded
C14_Witness ==
  /\ pc = "query"
  /\ Len(writes) = 3
  /\ writes[1].outcome = "failed"
  /\ writes[2].outcome = "ok"
  /\ InFlight = {3}

\* ---------------------------------------------------------------------------
\* C15: a client is acquired only inside an insertDataBatch call, for a
\* batch that is not empty, and one at a time; the step that ends the call,
\* the INSERT having succeeded or failed, releases it; so the run holds a
\* client exactly while the INSERT of a call is in flight, and none when no
\* call is in flight, when the handler has returned, with success or with
\* failure, and when no record was ever buffered.
\* ---------------------------------------------------------------------------
C15_ClientsReleased ==
  /\ [](
       /\ clients = (IF pc = "query" THEN 1 ELSE 0)
       /\ (InFlight = {}) => (clients = 0)
       /\ (pc \in {"report", "end"}) => (clients = 0)
       /\ (produced = 0) => (clients = 0 /\ writes = <<>>)
       /\ \A k \in 1..Len(writes) : Len(writes[k].rows) > 0
     )
  /\ [][clients' > clients =>
          (/\ pc = "connect" /\ pc' = "query"
           /\ clients' = clients + 1
           /\ Len(LastWrite.rows) > 0)]_vars
  /\ [][pc = "query" =>
          (/\ clients' = clients - 1
           /\ writes'[Len(writes)].outcome \in {"ok", "failed"}
           /\ pc' \in {"loop", "report"})]_vars

\* the stream failed after a successful and a failed INSERT; no client is
\* held
C15_Witness ==
  /\ pc = "end"
  /\ fatal = "read"
  /\ Len(writes) = 2
  /\ writes[1].outcome = "ok"
  /\ writes[2].outcome = "failed"
  /\ clients = 0

\* ---------------------------------------------------------------------------
\* C16: a run issues the age-distribution query at most once, and only when
\* the success response has been sent: no fatal error occurred, every line
\* was consumed and every insertDataBatch call, the final flush included,
\* has returned.  Whether the query resolves or rejects, the response sent
\* stays as it is, the run does not become a failed run, no second query is
\* issued and the report has ended.  A report is printed only by a run that
\* issued the query.
\* ---------------------------------------------------------------------------
C16_ReportAfterSuccess ==
  /\ [](
       /\ reports <= 1
       /\ (reports = 1) =>
            /\ res = <<200>>
            /\ fatal = "none"
            /\ pc \in {"report", "end"}
            /\ consumed = NumLines(file)
            /\ InFlight = {}
            /\ Len(writes) = NumBatches(DataRows(file))
       /\ (res # <<200>>) => (reports = 0)
       /\ (report # <<>>) => (reports = 1 /\ pc = "end")
     )
  /\ [][reports' # reports =>
          (reports' = reports + 1 /\ res = <<>> /\ res' = <<200>>)]_vars
  /\ [][pc = "report" =>
          (res' = res /\ fatal' = fatal /\ reports' = reports /\ pc' = "end")]_vars

\* the query of the report was rejected after a run that stored rows: the
\* run has ended with the success response and nothing printed
C16_Witness ==
  /\ pc = "end"
  /\ reports = 1
  /\ res = <<200>>
  /\ fatal = "none"
  /\ users # <<>>
  /\ report = <<>>

\* ---------------------------------------------------------------------------
\* Definitions for C17
\* ---------------------------------------------------------------------------
\* the path of column j ends above the last segment of the path of column i
Above(j, i) == Len(Keys(j)) < Len(Keys(i)) /\ IsPrefix(Keys(j), Keys(i))

\* column i is assigned below a leaf: an earlier column j has put a value at
\* an intermediate segment of its path, and no third column names a location
\* on that path
BelowLeaf(i) ==
  /\ Present(i)
  /\ \E j \in 1..(i - 1) :
       /\ Present(j)
       /\ Above(j, i)
       /\ \A k \in Columns \ {i, j} :
            ~IsPrefix(Keys(k), Keys(i)) /\ ~IsPrefix(Keys(i), Keys(k))

\* ---------------------------------------------------------------------------
\* C17 (as claimed): a line that assigns a column below a leaf an earlier
\* column of the line has set (header a,a.b with two non-empty values) fails
\* with an error: it gives no record.
\* ---------------------------------------------------------------------------
C17_FailsFastOnLeaf ==
  (lineResult \in {"row", "throw"} /\ \E i \in Columns : BelowLeaf(i))
    => lineResult = "throw"

\* ---------------------------------------------------------------------------
\* Definitions for C18
\* ---------------------------------------------------------------------------
\* the values of the line, with an empty string for every column that the
\* line has no value for
PaddedValues ==
  [i \in 1..(IF Len(Values) < Len(headers) THEN Len(headers) ELSE Len(Values))
     |-> IF i <= Len(Values) THEN Values[i] ELSE <<>>]

\* ---------------------------------------------------------------------------
\* C18 (as claimed): a line with fewer values than the header has columns
\* gives the raw record and the Target Record of the line with the missing
\* values supplied as empty strings.
\* ---------------------------------------------------------------------------
C18_MissingAsEmpty ==
  (lineResult = "row" /\ Len(Values) < Len(headers)) =>
    /\ rowObject = forEachHeader(EmptyObj, headers, PaddedValues, 1)
    /\ dbRow = transformForDb(forEachHeader(EmptyObj, headers, PaddedValues, 1))

\* ---------------------------------------------------------------------------
\* Definitions for C19
\* ---------------------------------------------------------------------------
\* the records handed to insertDataBatch calls so far, in order
Handed == WrittenRows(Len(writes))

\* ---------------------------------------------------------------------------
\* C19: every record is handed to at most one insertDataBatch call, and to
\* exactly one when the stream was read to its end: the p-th record handed
\* to the calls of a run is the record of the p-th data line, so no record
\* appears in two calls or twice in one; while the handler awaits a line the
\* buffer holds the records produced and not handed to a call yet; and when
\* a flush returns, the INSERT having succeeded or failed, the buffer is
\* empty and the call made stays as it was, so the records of a failed batch
\* are in no later call.
\* ---------------------------------------------------------------------------
C19_EachRecordWrittenOnce ==
  /\ [](
       /\ Len(Handed) <= produced
       /\ \A p \in 1..Len(Handed) : Handed[p] = RecordOfLine(p)
       /\ (pc = "loop") => (produced = Len(Handed) + Len(batch))
       /\ StreamEnded => (Len(Handed) = DataRows(file))
     )
  /\ [][(pc = "query" /\ ~LastWrite.final) =>
          (/\ batch' = <<>>
           /\ pc' = "loop"
           /\ Len(writes') = Len(writes)
           /\ writes'[Len(writes)].rows = LastWrite.rows)]_vars

\* the first batch failed and the two batches after it were stored: the
\* table holds the rows of those two only
C19_Witness ==
  /\ pc = "end"
  /\ res = <<200>>
  /\ Len(writes) = 3
  /\ writes[1].outcome = "failed"
  /\ writes[2].outcome = "ok"
  /\ writes[3].outcome = "ok"
  /\ Len(users) = DataRows(file) - BATCH_SIZE

\* ---------------------------------------------------------------------------
\* Definitions for C20
\* ---------------------------------------------------------------------------
\* the record of the n-th data line of the file f
RecordIn(f, n) ==
  transformForDb(RowOf(split(LineAt(f, 1), Comma), LineAt(f, n + 1)))

\* the invocation r has the header, the line position, the buffer and the
\* batch writes of a run over its own file: the k-th call holds the records of
\* the data lines (k-1)*B+1.. of that file, B of them unless it is the final
\* flush, and the buffer holds the records of the lines after them
RunsOwnLines(r) ==
  /\ r.consumed <= NumLines(r.file)
  /\ (r.consumed >= 1) =>
       /\ r.headers = split(LineAt(r.file, 1), Comma)
       /\ r.line = LineAt(r.file, r.consumed)
  /\ \A k \in 1..Len(r.writes) :
       /\ Len(r.writes[k].rows) =
            (IF r.writes[k].final
               THEN DataRows(r.file) - BATCH_SIZE * (k - 1)
               ELSE BATCH_SIZE)
       /\ \A i \in 1..Len(r.writes[k].rows) :
            r.writes[k].rows[i] = RecordIn(r.file, (k - 1) * BATCH_SIZE + i)
  /\ (r.pc = "loop") =>
       /\ r.produced >= BATCH_SIZE * Len(r.writes)
       /\ r.batch = [i \in 1..(r.produced - BATCH_SIZE * Len(r.writes)) |->
                       RecordIn(r.file, BATCH_SIZE * Len(r.writes) + i)]

\* ---------------------------------------------------------------------------
\* C20: of two invocations of the handler that overlap, interleaved at their
\* awaits in any way, each has the header of its own file, its own line
\* position and its own buffer, and its batch writes hold the records of the
\* lines of its own file, in file order and with the batch boundaries of a
\* run that executes alone.
\* ---------------------------------------------------------------------------
C20_RunsAreIndependent ==
  /\ RunsOwnLines(Locals(0))
  /\ (other # NoRun) => RunsOwnLines(other)

\* two runs over different files have both ended with success, their writes
\* having alternated: the table holds the first batch of one, the first
\* batch of the other, then the final batch of each
C20_Witness ==
  /\ other # NoRun
  /\ file # other.file
  /\ pc = "end" /\ other.pc = "end"
  /\ res = <<200>> /\ other.res = <<200>>
  /\ Len(writes) = 2 /\ Len(other.writes) = 2
  /\ users = AgesOf(writes[1].rows) \o AgesOf(other.writes[1].rows)
               \o AgesOf(writes[2].rows) \o AgesOf(other.writes[2].rows)

====
